---- MODULE Spec2Model ----
(***************************************************************************)
(* A model of mass-mv: the conflict dry run of iter.rs (DataTracker with   *)
(* the Forward and Reverse iterators), the program of main.rs              *)
(* (has_conflict, do_rename, do_copy, preview) and the renamer of          *)
(* rename.rs (running index, numeric width).                               *)
(***************************************************************************)
EXTENDS Integers, Sequences, FiniteSets, TLC

\* ------------------------------------------------------------------------
\* Bounds
\* ------------------------------------------------------------------------
NumPaths == 4       \* distinct paths of a dry-run batch
MaxOps == 3         \* operations of a dry-run batch
NumFiles == 3       \* distinct paths of a batch that main executes
MaxBatch == 3       \* operations of a batch that main executes
MaxRename == 3      \* paths of a batch that is rendered
MaxWidth == 3       \* widths of the segments of a template
MaxPieces == 3      \* pieces of a template string that is compiled

Paths == 1..NumPaths
Files == 1..NumFiles

VARIABLES
    paths,      \* the source list (`from` of iter.rs, `paths` of main.rs)
    new_paths,  \* the destination list (`to` of iter.rs, `new_paths` of main.rs)
    tracker,    \* DataTracker.paths : path -> bool (TRUE = still pending)
    dir,        \* the iterator type handed to the last check_iteration call
    prev_dir,   \* the iterator type of the call before that one
    result,     \* what the last check_iteration call returned
    visited,    \* the operations the last call pulled from its iterator
    force,      \* Opt.force
    copy,       \* Opt.copy
    pc,         \* position of main
    count,      \* `count` of do_rename / do_copy / preview
    performed,  \* indices whose action (or preview line) went through, in order
    failed_at,  \* index of the operation whose `?` returned the error, 0 if none
    fs,         \* the filesystem: path -> content, Absent when no such file
    fs0,        \* the filesystem when main started
    report,     \* what the run reported as its error
    exit_status,\* process exit status, Running while main runs
    start_arg,  \* the --start argument : Option<u32>
    start,      \* Opts.start, as decimal digits
    idx,        \* Renamer.idx (u32), as decimal digits
    r_count,    \* Renamer.count : Option<usize>
    template_str, \* Opts.template : the template as the user wrote it
    template,   \* Renamer.template : the segments
    pattern,    \* Renamer.pattern : Option<Regex>
    renders     \* per call of rename: the index used and the text per segment

trackerVars == <<tracker, dir, prev_dir, result, visited>>
mainVars == <<force, copy, pc, count, performed, failed_at, fs, fs0, report,
              exit_status>>
renameVars == <<start_arg, start, idx, r_count, template_str, template,
                pattern, renders>>
vars == <<paths, new_paths, trackerVars, mainVars, renameVars>>

Range(s) == {s[i] : i \in DOMAIN s}

SeqsUpTo(S, n) == UNION {[1..k -> S] : k \in 0..n}

Absent == 0         \* no file at the path
Truncated == -1     \* a file emptied by a copy onto itself
None == <<>>       \* Option::None
Some(x) == <<x>>   \* Option::Some
Running == -1       \* main has not returned or exited
NoReport == [kind |-> "none"]

\* ------------------------------------------------------------------------
\* iter.rs
\* ------------------------------------------------------------------------
Operation(f, t) == [from |-> f, to |-> t]

\* Operation::into_conflict
into_conflict(operation) == [from |-> operation.from, to |-> operation.to]

Ok == [ok |-> TRUE]
Err(conflict) == [ok |-> FALSE, conflict |-> conflict]

\* DataTracker::new : one entry per distinct path, all pending
DataTracker_new(ps) == [p \in Range(ps) |-> TRUE]

\* DataTracker::reset
reset_Skipped(t) == t
reset(t) == [p \in DOMAIN t |-> TRUE]

\* Forward: every call of next yields the operation at idx and moves idx up,
\* until idx >= from.len(); the sequence of the items it yields.
Forward(from, to) == [k \in 1..Len(from) |-> Operation(from[k], to[k])]

\* Reverse: idx starts at from.len(); next yields the operation at idx - 1
\* and moves idx down, until idx == 0.
Reverse_CountingUp(from, to) ==
    [k \in 1..Len(from) |-> Operation(from[k], to[k])]
Reverse(from, to) ==
    [k \in 1..Len(from) |->
        Operation(from[Len(from) + 1 - k], to[Len(from) + 1 - k])]

\* `if let Some(from) = self.paths.get_mut(operation.from) { *from = false }`
Vacate_Never(t, p) == t
Vacate(t, p) == IF p \in DOMAIN t THEN [t EXCEPT ![p] = FALSE] ELSE t

\* `self.paths.get(operation.to).copied().unwrap_or_default()`
is_conflict_Present(t, p) == p \in DOMAIN t
is_conflict(t, p) == IF p \in DOMAIN t THEN t[p] ELSE FALSE

\* The for loop of check_iteration from item k of the iteration on.
RECURSIVE check_loop(_, _, _)
check_loop(t, iteration, k) ==
    IF k > Len(iteration)
    THEN [result |-> Ok, paths |-> t, visited |-> k - 1]
    ELSE LET operation == iteration[k]
             t1 == Vacate(t, operation.from)
         IN  IF is_conflict(t1, operation.to)
             THEN [result |-> Err(into_conflict(operation)),
                   paths |-> t1, visited |-> k]
             ELSE check_loop(t1, iteration, k + 1)

\* DataTracker::check_iteration
check_iteration(t, iteration) == check_loop(reset(t), iteration, 1)

\* ------------------------------------------------------------------------
\* Dry runs on one DataTracker, in any number and any order
\* ------------------------------------------------------------------------
Batches ==
    {b \in SeqsUpTo(Paths, MaxOps) \X SeqsUpTo(Paths, MaxOps) :
        Len(b[1]) = Len(b[2])}

RenamerIdle ==
    /\ start_arg = None
    /\ start = <<1>>
    /\ idx = <<1>>
    /\ r_count = None
    /\ template_str = <<>>
    /\ template = <<>>
    /\ pattern = None
    /\ renders = <<>>

MainIdle ==
    /\ force = FALSE
    /\ copy = FALSE
    /\ pc = "idle"
    /\ count = 0
    /\ performed = <<>>
    /\ failed_at = 0
    /\ fs = <<>>
    /\ fs0 = <<>>
    /\ report = NoReport
    /\ exit_status = Running

InitT ==
    /\ \E b \in Batches : paths = b[1] /\ new_paths = b[2]
    /\ tracker = DataTracker_new(paths)
    /\ dir = "none"
    /\ prev_dir = "none"
    /\ result = Ok
    /\ visited = 0
    /\ MainIdle
    /\ RenamerIdle

CheckForward ==
    LET r == check_iteration(tracker, Forward(paths, new_paths))
    IN  /\ tracker' = r.paths
        /\ dir' = "Forward"
        /\ prev_dir' = dir
        /\ result' = r.result
        /\ visited' = r.visited
        /\ UNCHANGED <<paths, new_paths, mainVars, renameVars>>

CheckReverse ==
    LET r == check_iteration(tracker, Reverse(paths, new_paths))
    IN  /\ tracker' = r.paths
        /\ dir' = "Reverse"
        /\ prev_dir' = dir
        /\ result' = r.result
        /\ visited' = r.visited
        /\ UNCHANGED <<paths, new_paths, mainVars, renameVars>>

NextT == CheckForward \/ CheckReverse

SpecT == InitT /\ [][NextT]_vars

\* ------------------------------------------------------------------------
\* main.rs
\* ------------------------------------------------------------------------

\* `existing_paths`: collecting (path, idx) pairs into a HashMap keeps, for a
\* path that occurs more than once, the pair inserted last.
existing_paths(ps) ==
    [p \in Range(ps) |->
        CHOOSE i \in DOMAIN ps :
            ps[i] = p /\ \A j \in DOMAIN ps : ps[j] = p => j <= i]

\* has_conflict: the first destination, in index order, that is the source
\* of a later index; None when there is none.
has_conflict_Inclusive(ps, nps) ==
    LET existing == existing_paths(ps)
        hits == {i \in DOMAIN nps :
                    nps[i] \in DOMAIN existing /\ i <= existing[nps[i]]}
    IN  IF hits = {} THEN None
        ELSE Some(nps[CHOOSE i \in hits : \A j \in hits : i <= j])
has_conflict(ps, nps) ==
    LET existing == existing_paths(ps)
        hits == {i \in DOMAIN nps :
                    nps[i] \in DOMAIN existing /\ i < existing[nps[i]]}
    IN  IF hits = {} THEN None
        ELSE Some(nps[CHOOSE i \in hits : \A j \in hits : i <= j])

\* fs::rename(from, to): the outcomes when the call succeeds
fs_rename(f, from, to) ==
    IF from = to THEN {f}
    ELSE {[f EXCEPT ![to] = f[from], ![from] = Absent]}

\* fs::copy(from, to): the outcomes when the call succeeds; copying a file
\* onto itself may truncate it
fs_copy(f, from, to) ==
    IF from = to THEN {f, [f EXCEPT ![to] = Truncated]}
    ELSE {[f EXCEPT ![to] = f[from]]}

MainBatches ==
    {b \in SeqsUpTo(Files, MaxBatch) \X SeqsUpTo(Files, MaxBatch) :
        Len(b[1]) = Len(b[2])}

TrackerIdle ==
    /\ tracker = <<>>
    /\ dir = "none"
    /\ prev_dir = "none"
    /\ result = Ok
    /\ visited = 0

\* main up to the call of has_conflict: the flags are parsed, the paths are
\* collected (each one an existing file) and the destinations are rendered.
InitM ==
    /\ \E b \in MainBatches : paths = b[1] /\ new_paths = b[2]
    /\ force \in BOOLEAN
    /\ copy \in BOOLEAN
    /\ \E others \in SUBSET (Files \ Range(paths)) :
          fs0 = [p \in Files |->
                    IF p \in Range(paths) \cup others THEN p ELSE Absent]
    /\ fs = fs0
    /\ pc = "has_conflict"
    /\ count = 0
    /\ performed = <<>>
    /\ failed_at = 0
    /\ report = NoReport
    /\ exit_status = Running
    /\ TrackerIdle
    /\ RenamerIdle

\* `if let Some(conflict) = has_conflict(..) { eprintln!(..); process::exit(1) }`
ConflictExit_NoExit ==
    /\ pc = "has_conflict"
    /\ has_conflict(paths, new_paths) # None
    /\ report' = [kind |-> "conflict", path |-> has_conflict(paths, new_paths)[1]]
    /\ pc' = IF force THEN "do_rename" ELSE IF copy THEN "do_copy" ELSE "preview"
    /\ UNCHANGED <<paths, new_paths, trackerVars, renameVars, force, copy, count,
                   performed, failed_at, fs, fs0, exit_status>>

ConflictExit ==
    /\ pc = "has_conflict"
    /\ has_conflict(paths, new_paths) # None
    /\ report' = [kind |-> "conflict", path |-> has_conflict(paths, new_paths)[1]]
    /\ exit_status' = 1
    /\ pc' = "exit"
    /\ UNCHANGED <<paths, new_paths, trackerVars, renameVars, force, copy, count,
                   performed, failed_at, fs, fs0>>

\* no conflict: main goes on to do_rename, do_copy or preview
NoConflict ==
    /\ pc = "has_conflict"
    /\ has_conflict(paths, new_paths) = None
    /\ pc' = IF force THEN "do_rename" ELSE IF copy THEN "do_copy" ELSE "preview"
    /\ UNCHANGED <<paths, new_paths, trackerVars, renameVars, force, copy, count,
                   performed, failed_at, fs, fs0, report, exit_status>>

\* the `?` of a loop body returns the error: the function returns, main
\* returns Err and the process exits with a non-zero status
Abort_Ignored(i) ==
    /\ failed_at' = i
    /\ count' = count + 1
    /\ UNCHANGED <<performed, fs, report, exit_status, pc>>

Abort(i) ==
    /\ failed_at' = i
    /\ report' = [kind |-> "io"]
    /\ exit_status' = 1
    /\ pc' = "exit"
    /\ UNCHANGED <<count, performed, fs>>

\* the loop body went through for the operation at index i
Performed(i, f) ==
    /\ fs' = f
    /\ count' = count + 1
    /\ performed' = Append(performed, i)
    /\ UNCHANGED <<failed_at, report, exit_status, pc>>

\* one iteration of `for (from, to) in paths.iter().zip(new_paths)` in
\* do_rename: format_op, then fs::rename, then count += 1
do_rename_step ==
    /\ pc = "do_rename"
    /\ count < Len(paths)
    /\ LET i == count + 1 IN
        \/ Abort(i)
        \/ /\ fs[paths[i]] # Absent
           /\ \E f \in fs_rename(fs, paths[i], new_paths[i]) : Performed(i, f)
    /\ UNCHANGED <<paths, new_paths, trackerVars, renameVars, force, copy, fs0>>

\* one iteration of the loop of do_copy: format_op, fs::copy, count += 1
do_copy_step ==
    /\ pc = "do_copy"
    /\ count < Len(paths)
    /\ LET i == count + 1 IN
        \/ Abort(i)
        \/ /\ fs[paths[i]] # Absent
           /\ \E f \in fs_copy(fs, paths[i], new_paths[i]) : Performed(i, f)
    /\ UNCHANGED <<paths, new_paths, trackerVars, renameVars, force, copy, fs0>>

\* one iteration of the loop of preview: format_op, count += 1
preview_step ==
    /\ pc = "preview"
    /\ count < Len(paths)
    /\ LET i == count + 1 IN
        \/ Abort(i)
        \/ Performed(i, fs)
    /\ UNCHANGED <<paths, new_paths, trackerVars, renameVars, force, copy, fs0>>

\* the loop is over: the count is printed, the function and main return Ok
Finish ==
    /\ pc \in {"do_rename", "do_copy", "preview"}
    /\ count = Len(paths)
    /\ pc' = "exit"
    /\ exit_status' = 0
    /\ UNCHANGED <<paths, new_paths, trackerVars, renameVars, force, copy, count,
                   performed, failed_at, fs, fs0, report>>

NextM ==
    \/ ConflictExit
    \/ NoConflict
    \/ do_rename_step
    \/ do_copy_step
    \/ preview_step
    \/ Finish

SpecM == InitM /\ [][NextM]_vars

\* ------------------------------------------------------------------------
\* rename.rs (with the Path methods of std it calls)
\* ------------------------------------------------------------------------
\* Text is a sequence of one-character strings.  A u32 is kept as the
\* sequence of its decimal digits, most significant first, without leading
\* zeros, so that the values around u32::MAX are there.
U32_MAX == <<4, 2, 9, 4, 9, 6, 7, 2, 9, 5>>

Max(a, b) == IF a >= b THEN a ELSE b

\* the digits of d + 1
RECURSIVE Succ(_)
Succ(d) ==
    IF d = <<>> THEN <<1>>
    ELSE IF d[Len(d)] < 9 THEN [d EXCEPT ![Len(d)] = @ + 1]
    ELSE Succ(SubSeq(d, 1, Len(d) - 1)) \o <<0>>

\* the digits of d + k
RECURSIVE Plus(_, _)
Plus(d, k) == IF k = 0 THEN d ELSE Plus(Succ(d), k - 1)

\* `self.idx += 1` on a u32: at u32::MAX the addition overflows, which
\* panics when overflow checks are compiled in and wraps to 0 when not
Overflow == <<-1>>
idx_increment(i) == IF i = U32_MAX THEN {Overflow, <<0>>} ELSE {Succ(i)}

Literal(s) == [kind |-> "Literal", text |-> s, width |-> 0]
Numeric(w) == [kind |-> "Numeric", text |-> <<>>, width |-> w]
Filename(w) == [kind |-> "Filename", text |-> <<>>, width |-> w]

\* get_width: the first width of (1, 10), (2, 100), ... whose witness is
\* above count; the witnesses do not overflow a usize for the counts here
RECURSIVE witness_pairs_find(_, _, _)
witness_pairs_find(width, witness, cnt) ==
    IF witness > cnt THEN Some(width)
    ELSE witness_pairs_find(width + 1, witness * 10, cnt)

get_width(cnt) ==
    IF cnt = None THEN None ELSE witness_pairs_find(1, 10, cnt[1])

unwrap_or_default(o) == IF o = None THEN 0 ELSE o[1]

DigitChars == <<"0", "1", "2", "3", "4", "5", "6", "7", "8", "9">>

\* Display of a u32: its decimal digits
to_chars(d) == [k \in 1..Len(d) |-> DigitChars[d[k] + 1]]

\* `{:0width$}`: zero-padded on the left up to width, never cut
zero_padded(d, width) ==
    [k \in 1..(Max(width, Len(d)) - Len(d)) |-> "0"] \o to_chars(d)

\* Path::file_stem and Path::extension of a file name (rsplit_file_at_dot)
rsplit_file_at_dot(file) ==
    LET dots == {k \in DOMAIN file : file[k] = "."}
        last == CHOOSE k \in dots : \A m \in dots : m <= k
    IN  IF file = <<".", ".">> THEN [before |-> Some(file), after |-> None]
        ELSE IF dots = {} THEN [before |-> None, after |-> Some(file)]
        ELSE IF last = 1 THEN [before |-> Some(file), after |-> None]
        ELSE [before |-> Some(SubSeq(file, 1, last - 1)),
              after |-> Some(SubSeq(file, last + 1, Len(file)))]

file_stem(file) ==
    LET s == rsplit_file_at_dot(file)
    IN  IF s.before # None THEN s.before ELSE s.after

extension(file) ==
    LET s == rsplit_file_at_dot(file)
    IN  IF s.before # None THEN s.after ELSE None

\* Path::with_file_name: the parent is kept, the file name replaced
with_file_name(path, file_name) == [path EXCEPT !.name = file_name]

\* PathBuf::set_extension: cut the path right after its file stem, then
\* append "." and the extension unless the extension is empty
set_extension(path, ext) ==
    LET stem == file_stem(path.name)
    IN  IF stem = None THEN path
        ELSE [path EXCEPT !.name =
                 stem[1] \o (IF ext = <<>> THEN <<>> ELSE <<".">> \o ext)]

\* The patterns of the model: `[0-9]+` (no capture group) and `a(.+)` (one).
Digits == {"0", "1", "2", "3", "4", "5", "6", "7", "8", "9"}
Patterns == {"[0-9]+", "a(.+)"}

\* Regex::captures: the leftmost match, as group 0 and group 1
captures(re, text) ==
    IF re = "[0-9]+"
    THEN LET ds == {k \in DOMAIN text : text[k] \in Digits}
             b == CHOOSE k \in ds : \A m \in ds : k <= m
             e == CHOOSE k \in b..Len(text) :
                     /\ \A m \in b..k : text[m] \in Digits
                     /\ (k = Len(text) \/ text[k + 1] \notin Digits)
         IN  IF ds = {} THEN None
             ELSE Some([g0 |-> Some(SubSeq(text, b, e)), g1 |-> None])
    ELSE LET as == {k \in 1..(Len(text) - 1) : text[k] = "a"}
             b == CHOOSE k \in as : \A m \in as : k <= m
         IN  IF as = {} THEN None
             ELSE Some([g0 |-> Some(SubSeq(text, b, Len(text))),
                        g1 |-> Some(SubSeq(text, b + 1, Len(text)))])

\* RenameContext::extract_name
extract_name(pat, text) ==
    IF pat = None THEN text
    ELSE LET c == captures(pat[1], text)
         IN  IF c = None THEN text
             ELSE IF c[1].g1 # None THEN c[1].g1[1] ELSE c[1].g0[1]

Done(text) == [panic |-> FALSE, text |-> text]
Panic == [panic |-> TRUE, text |-> <<>>]

\* RenameContext::format_filename; `&name[..n]` panics when n is beyond
\* the end of name
format_filename(path, pat, width) ==
    LET stem == file_stem(path.name)
    IN  IF stem = None THEN Panic
        ELSE LET name == extract_name(pat, stem[1])
             IN  IF width = 1 THEN Done(name)
                 ELSE IF width > Len(name) THEN Panic
                 ELSE Done(SubSeq(name, 1, width))

\* one arm of the match of Display::fmt
fmt_segment(segment, i, width, path, pat) ==
    IF segment.kind = "Literal" THEN Done(segment.text)
    ELSE IF segment.kind = "Numeric"
    THEN Done(zero_padded(i, Max(segment.width, unwrap_or_default(width))))
    ELSE format_filename(path, pat, segment.width)

\* Display::fmt of the RenameContext that Renamer::context builds: the text
\* written per segment, up to the segment that panics
fmt_fields(tmpl, i, cnt, path, pat) ==
    [k \in DOMAIN tmpl |-> fmt_segment(tmpl[k], i, get_width(cnt), path, pat)]

RECURSIVE Concat(_)
Concat(ts) == IF ts = <<>> THEN <<>> ELSE Head(ts) \o Concat(Tail(ts))

\* Renamer::rename up to `self.idx += 1`: the destination
rename_result(path, stem) ==
    LET renamed == with_file_name(path, stem)
        ext == extension(path.name)
    IN  IF ext # None THEN set_extension(renamed, ext[1]) ELSE renamed

\* ------------------------------------------------------------------------
\* template.rs
\* ------------------------------------------------------------------------
\* the specifier class `[FfNnOo0]` of the pattern of TemplateParser::new
regex_specifiers_AnyLetter == {"F", "f", "N", "n", "O", "o", "0", "x"}
regex_specifiers == {"F", "f", "N", "n", "O", "o", "0"}

\* `(\{([FfNnOo0])(:\d+)?\})` at position p of s: the position of the closing
\* brace, 0 when the group does not match there
token_end(s, p) ==
    IF p + 2 > Len(s) THEN 0
    ELSE IF s[p] # "{" \/ s[p + 1] \notin regex_specifiers THEN 0
    ELSE IF s[p + 2] = "}" THEN p + 2
    ELSE IF s[p + 2] # ":" THEN 0
    ELSE LET stops == {e \in (p + 3)..Len(s) : s[e] \notin Digits}
             e == CHOOSE e \in stops : \A m \in stops : e <= m
         IN  IF stops = {} THEN 0
             ELSE IF e > p + 3 /\ s[e] = "}" THEN e
             ELSE 0

\* the whole pattern `[^\\]?(\{..\})` tried at position m: the start of
\* group 1, 0 when there is no match at m; the optional character is taken
\* first, and given back when the rest does not match after it
match_at(s, m) ==
    IF m + 1 <= Len(s) /\ s[m] # "\\" /\ token_end(s, m + 1) # 0 THEN m + 1
    ELSE IF m <= Len(s) /\ token_end(s, m) # 0 THEN m
    ELSE 0

\* one item of captures_iter: the leftmost match at or after position at,
\* as the Formatter built from its groups; None when there is none
next_capture(s, at) ==
    LET ms == {m \in at..Len(s) : match_at(s, m) # 0}
        m == CHOOSE m \in ms : \A k \in ms : m <= k
        b == match_at(s, m)
        e == token_end(s, b)
    IN  IF ms = {} THEN None
        ELSE Some([start |-> b, end |-> e, specifier |-> s[b + 1],
                   quantifier |-> IF e = b + 2 THEN None
                                  ELSE Some(SubSeq(s, b + 2, e - 1))])

\* str::parse::<usize> of a run of digits (the runs here fit a usize)
RECURSIVE parse_usize(_)
parse_usize(ds) ==
    IF ds = <<>> THEN 0
    ELSE 10 * parse_usize(SubSeq(ds, 1, Len(ds) - 1))
         + (CHOOSE n \in 0..9 : DigitChars[n + 1] = ds[Len(ds)])

\* Formatter::quantifier: the digits after the colon, 1 without a quantifier
quantifier(formatter) ==
    IF formatter.quantifier = None THEN 1
    ELSE parse_usize(Tail(formatter.quantifier[1]))

\* the match on formatter.specifier in parse: the segments it pushes
specifier_segments(formatter) ==
    IF formatter.specifier \in {"0", "n", "N"}
    THEN <<Numeric(quantifier(formatter))>>
    ELSE IF formatter.specifier \in {"o", "O", "f", "F"}
    THEN <<Filename(quantifier(formatter))>>
    ELSE <<>>

\* the loop of parse and what follows it; `left` counts the characters
\* already covered, `at` is where captures_iter goes on searching
RECURSIVE parse_loop(_, _, _, _)
parse_loop(s, left, at, segments) ==
    LET c == next_capture(s, at)
    IN  IF c = None
        THEN IF left < Len(s)
             THEN Append(segments, Literal(SubSeq(s, left + 1, Len(s))))
             ELSE segments
        ELSE LET formatter == c[1]
                 lit == IF formatter.start - 1 > left
                        THEN <<Literal(SubSeq(s, left + 1, formatter.start - 1))>>
                        ELSE <<>>
             IN  parse_loop(s, formatter.end, formatter.end + 1,
                            segments \o lit \o specifier_segments(formatter))

\* TemplateParser::parse
parse(s) == parse_loop(s, 0, 1, <<>>)

\* ------------------------------------------------------------------------
\* Rendering the destinations of a batch: main's
\* `paths.iter().map(|x| renamer.rename(x)).collect()`
\* ------------------------------------------------------------------------
Names ==
    { <<"a", "b", ".", "x">>, <<"a", "1">>, <<"b">>, <<".", "x">> }

SourcePaths == {[parent |-> "d", name |-> n] : n \in Names}

Widths == 0..MaxWidth

Templates ==
    {<<Numeric(w)>> : w \in Widths}
    \cup {<<Literal(<<"v">>), Numeric(w), Literal(<<"-">>), Filename(v)>> :
            w \in Widths, v \in Widths}

\* the template strings that compile to the templates above
numeric_token(w) == <<"{", "n", ":", DigitChars[w + 1], "}">>
filename_token(w) == <<"{", "o", ":", DigitChars[w + 1], "}">>
TemplateStrings ==
    {numeric_token(w) : w \in Widths}
    \cup {<<"v">> \o numeric_token(w) \o <<"-">> \o filename_token(v) :
            w \in Widths, v \in Widths}

Starts == {<<0>>, <<1>>, <<9>>, <<2, 1>>,
           <<4, 2, 9, 4, 9, 6, 7, 2, 9, 4>>, U32_MAX}

\* Opts::from_args: `start: start.unwrap_or(1)`
Opts_start(arg) == IF arg = None THEN <<1>> ELSE arg[1]

\* what the caller of Renamer::new passes as count when the number of items
\* of the batch is known up front
BatchCount(ps) == Some(Len(ps))

\* Renamer::new(options, count)
InitR ==
    /\ paths \in SeqsUpTo(SourcePaths, MaxRename)
    /\ new_paths = <<>>
    /\ start_arg \in {None} \cup {Some(s) : s \in Starts}
    /\ start = Opts_start(start_arg)
    /\ idx = start
    /\ r_count \in {None, BatchCount(paths)}
    /\ template \in Templates
    /\ template_str \in {s \in TemplateStrings : parse(s) = template}
    /\ pattern \in {None} \cup {Some(re) : re \in Patterns}
    /\ renders = <<>>
    /\ pc = "rename"
    /\ force = FALSE
    /\ copy = FALSE
    /\ count = 0
    /\ performed = <<>>
    /\ failed_at = 0
    /\ fs = <<>>
    /\ fs0 = <<>>
    /\ report = NoReport
    /\ exit_status = Running
    /\ TrackerIdle

Panicked ==
    /\ pc' = "panicked"
    /\ exit_status' = 101
    /\ UNCHANGED <<new_paths, idx, renders>>

\* one call of Renamer::rename, on the next path of the batch
rename ==
    /\ pc = "rename"
    /\ Len(new_paths) < Len(paths)
    /\ LET path == paths[Len(new_paths) + 1]
           fields == fmt_fields(template, idx, r_count, path, pattern)
           stem == Concat([k \in DOMAIN fields |-> fields[k].text])
       IN  IF \E k \in DOMAIN fields : fields[k].panic
           THEN Panicked
           ELSE \E next_idx \in idx_increment(idx) :
                   IF next_idx = Overflow
                   THEN Panicked
                   ELSE /\ new_paths' = Append(new_paths, rename_result(path, stem))
                        /\ idx' = next_idx
                        /\ renders' = Append(renders,
                              [idx |-> idx, path |-> path,
                               fields |-> [k \in DOMAIN fields |-> fields[k].text]])
                        /\ UNCHANGED <<pc, exit_status>>
    /\ UNCHANGED <<paths, trackerVars, start_arg, start, r_count, template_str,
                   template, pattern, force, copy, count, performed, failed_at, fs, fs0,
                   report>>

\* every path has been rendered: the destinations are collected
collect ==
    /\ pc = "rename"
    /\ Len(new_paths) = Len(paths)
    /\ pc' = "collected"
    /\ UNCHANGED <<paths, new_paths, trackerVars, renameVars, force, copy,
                   count, performed, failed_at, fs, fs0, report, exit_status>>

NextR == rename \/ collect

SpecR == InitR /\ [][NextR]_vars

\* ------------------------------------------------------------------------
\* Compiling the template the user wrote, then rendering one destination
\* ------------------------------------------------------------------------
Pieces ==
    { <<"v">>, <<".", "v">>, <<"\\">>, <<"{">>,
      <<"{", "n", "}">>, <<"{", "0", ":", "2", "}">>,
      <<"{", "o", "}">>, <<"{", "F", ":", "2", "}">>,
      <<"{", "x", "}">>, <<"{", "x", ":", "2", "}">> }

WrittenTemplates ==
    {Concat(ps) : ps \in SeqsUpTo(Pieces, MaxPieces) \ {<<>>}}

\* Renamer::new(options, count) with `template: parser.parse(&options.template)`
InitP ==
    /\ paths \in SeqsUpTo(SourcePaths, 1)
    /\ new_paths = <<>>
    /\ start_arg = None
    /\ start = Opts_start(start_arg)
    /\ idx = start
    /\ r_count = None
    /\ template_str \in WrittenTemplates
    /\ template = parse(template_str)
    /\ pattern \in {None} \cup {Some(re) : re \in Patterns}
    /\ renders = <<>>
    /\ pc = "rename"
    /\ force = FALSE
    /\ copy = FALSE
    /\ count = 0
    /\ performed = <<>>
    /\ failed_at = 0
    /\ fs = <<>>
    /\ fs0 = <<>>
    /\ report = NoReport
    /\ exit_status = Running
    /\ TrackerIdle

SpecP == InitP /\ [][NextR]_vars

\* ------------------------------------------------------------------------
\* Properties of the dry run (SpecT)
\* ------------------------------------------------------------------------
NoDup(s) == \A i, j \in DOMAIN s : s[i] = s[j] => i = j

\* The indices of the batch in the order a pass of direction d visits them.
OrderOf(d, n) == [k \in 1..n |-> IF d = "Forward" THEN k ELSE n + 1 - k]

\* Executing in order `ord`, no destination is the source of an operation
\* that comes later in that order.
NoPendingDest(ord) ==
    \A k, l \in DOMAIN ord :
        k < l => new_paths[ord[k]] # paths[ord[l]]

\* C1: whenever a pass of either direction returns Ok, executing in that
\* order never writes to[i] while it is still from[j] of an operation j that
\* comes later in the order; the source paths need not be distinct.
C1_AcceptedOrderIsSafe ==
    (dir # "none" /\ result.ok) => NoPendingDest(OrderOf(dir, Len(paths)))

\* What holds of the code: the same, for pairwise distinct source paths.
C1_Distinct_AcceptedOrderIsSafe ==
    (dir # "none" /\ result.ok /\ NoDup(paths))
        => NoPendingDest(OrderOf(dir, Len(paths)))

\* from = [p0..p(n-1)], to = [p1..pn], the p pairwise distinct, n >= 2
IsShiftUp ==
    /\ Len(paths) >= 2
    /\ NoDup(paths \o <<new_paths[Len(paths)]>>)
    /\ \A i \in 1..(Len(paths) - 1) : new_paths[i] = paths[i + 1]

\* from = [p1..pn], to = [p0..p(n-1)], the p pairwise distinct, n >= 2
IsShiftDown ==
    /\ Len(paths) >= 2
    /\ NoDup(<<new_paths[1]>> \o paths)
    /\ \A i \in 2..Len(paths) : new_paths[i] = paths[i - 1]

\* C4: on a shift-up batch every Forward pass returns Err and every Reverse
\* pass returns Ok, whatever passes ran on the same DataTracker before.
C4_ShiftUp ==
    IsShiftUp =>
        /\ dir = "Forward" => ~result.ok
        /\ dir = "Reverse" => result.ok

C4_Witness ==
    /\ IsShiftUp
    /\ Len(paths) = 3
    /\ prev_dir = "Forward"
    /\ dir = "Reverse"
    /\ result.ok

\* C5: on a shift-down batch every Forward pass returns Ok and every Reverse
\* pass returns Err, whatever passes ran on the same DataTracker before.
C5_ShiftDown ==
    IsShiftDown =>
        /\ dir = "Forward" => result.ok
        /\ dir = "Reverse" => ~result.ok

C5_Witness ==
    /\ IsShiftDown
    /\ Len(paths) = 3
    /\ prev_dir = "Forward"
    /\ dir = "Reverse"
    /\ ~result.ok
    /\ result.conflict = [from |-> paths[3], to |-> new_paths[3]]

\* ------------------------------------------------------------------------
\* Properties of main (SpecM)
\* ------------------------------------------------------------------------
\* The two dry runs of the batch on a DataTracker of its sources
ForwardDryRun ==
    check_iteration(DataTracker_new(paths), Forward(paths, new_paths)).result
ReverseDryRun ==
    check_iteration(DataTracker_new(paths), Reverse(paths, new_paths)).result

MultiOrderConflict(forward, reverse) ==
    [kind |-> "MultimodeConflict", forward |-> forward, reverse |-> reverse]

\* C2: a run that ends without an I/O error has processed the batch in
\* Forward order when the Forward dry run is safe, in Reverse order when only
\* the Reverse dry run is safe, and otherwise has processed nothing and
\* reported one MultiOrderConflict holding the two conflicts.
C2_SelectionPolicy ==
    (pc = "exit" /\ failed_at = 0) =>
        IF ForwardDryRun.ok
        THEN report = NoReport /\ performed = OrderOf("Forward", Len(paths))
        ELSE IF ReverseDryRun.ok
        THEN report = NoReport /\ performed = OrderOf("Reverse", Len(paths))
        ELSE /\ performed = <<>>
             /\ report = MultiOrderConflict(ForwardDryRun.conflict,
                                            ReverseDryRun.conflict)

\* operation j is reached from operation i in exactly k steps of
\* "the destination of one is the source of the next"
RECURSIVE Chain(_, _, _)
Chain(i, j, k) ==
    IF k = 0 THEN i = j
    ELSE \E m \in DOMAIN paths : new_paths[i] = paths[m] /\ Chain(m, j, k - 1)

\* the batch has a cycle through at least two operations
HasCycle ==
    \E i, j \in DOMAIN paths :
        /\ i # j
        /\ \E k \in 1..Len(paths) : Chain(i, j, k)
        /\ \E k \in 1..Len(paths) : Chain(j, i, k)

IsSwap ==
    /\ Len(paths) = 2
    /\ paths[1] # paths[2]
    /\ new_paths = <<paths[2], paths[1]>>

\* both dry runs reject every batch of distinct sources that has a cycle
CycleRejectedByBoth ==
    (NoDup(paths) /\ HasCycle) => (~ForwardDryRun.ok /\ ~ReverseDryRun.ok)

\* C3: a batch of distinct sources with a cycle of two or more operations is
\* rejected by both dry runs, and for a swap of two paths the run reports a
\* MultiOrderConflict.
C3_Unresolvable ==
    /\ CycleRejectedByBoth
    /\ (IsSwap /\ pc = "exit") =>
          report = MultiOrderConflict(ForwardDryRun.conflict,
                                      ReverseDryRun.conflict)

\* C6: once the conflict check has reported a conflict, nothing has been
\* renamed or copied, nothing ever is, and the run has exited with status 1;
\* and a batch with a conflict never gets past the check otherwise.
C6_ConflictBeforeMutation ==
    /\ report.kind = "conflict" =>
          /\ performed = <<>>
          /\ count = 0
          /\ fs = fs0
          /\ pc = "exit"
          /\ exit_status = 1
    /\ (has_conflict(paths, new_paths) # None /\ pc # "has_conflict") =>
          report.kind = "conflict"

C6_Witness ==
    /\ report.kind = "conflict"
    /\ force
    /\ Len(paths) = 3
    /\ pc = "exit"
    /\ exit_status = 1

\* C7: when a batch that the conflict check accepted has been moved
\* completely, every destination holds what its source held at the start.
C7_MovesPreserveContent ==
    (force /\ pc = "exit" /\ exit_status = 0) =>
        \A i \in DOMAIN paths : fs[new_paths[i]] = fs0[paths[i]]

\* What holds of the code: the same, for pairwise distinct destinations.
C7_DistinctDestinations ==
    (force /\ pc = "exit" /\ exit_status = 0 /\ NoDup(new_paths)) =>
        \A i \in DOMAIN paths : fs[new_paths[i]] = fs0[paths[i]]

\* the filesystems that the first k operations of the batch, performed once
\* each in index order, can leave behind
RECURSIVE FsAfter(_)
FsAfter(k) ==
    IF k = 0 THEN {fs0}
    ELSE UNION {IF force THEN fs_rename(f, paths[k], new_paths[k])
                         ELSE fs_copy(f, paths[k], new_paths[k]) :
                f \in FsAfter(k - 1)}

\* C8: in move and copy mode the operations are performed one at a time in
\* index order; after the action of operation k failed, exactly the
\* operations before k are performed, their effect is still on the
\* filesystem, and the run has ended with an error; a run that ends without
\* an error has performed every operation once.
C8_ExecutionAndAbort ==
    (force \/ copy) =>
        /\ performed = [k \in 1..count |-> k]
        /\ fs \in FsAfter(count)
        /\ failed_at # 0 =>
              /\ failed_at = count + 1
              /\ pc = "exit"
              /\ exit_status = 1
              /\ report = [kind |-> "io"]
        /\ (pc = "exit" /\ report = NoReport) =>
              /\ count = Len(paths)
              /\ exit_status = 0

C8_Witness ==
    /\ force
    /\ Len(paths) = 3
    /\ failed_at = 2
    /\ performed = <<1>>
    /\ fs # fs0
    /\ pc = "exit"
    /\ exit_status = 1

\* ------------------------------------------------------------------------
\* Properties of the renamer (SpecR)
\* ------------------------------------------------------------------------
\* C9: when the renamer knows the count of the batch, every index rendered
\* for a Numeric segment of width W is exactly
\* max(W, digits(start + count - 1)) characters long.
C9_NumericWidth ==
    r_count # None =>
        \A k \in DOMAIN renders : \A j \in DOMAIN template :
            template[j].kind = "Numeric" =>
                Len(renders[k].fields[j]) =
                    Max(template[j].width, Len(Plus(start, r_count[1] - 1)))

\* What holds of the code: the length is the largest of W, digits(count)
\* and the digits of the index itself.
C9_WidthFromCountOnly ==
    r_count # None =>
        \A k \in DOMAIN renders : \A j \in DOMAIN template :
            template[j].kind = "Numeric" =>
                Len(renders[k].fields[j]) =
                    Max(Max(template[j].width, get_width(r_count)[1]),
                        Len(renders[k].idx))

\* C10: the index starts at the start value (1 when none is given) and every
\* call of rename adds one to it: after k calls it is start + k, the k-th
\* destination was rendered with start + k - 1, from the k-th source.
C10_RunningIndex ==
    /\ start = (IF start_arg = None THEN <<1>> ELSE start_arg[1])
    /\ idx = Plus(start, Len(renders))
    /\ Len(new_paths) = Len(renders)
    /\ \A k \in DOMAIN renders :
          /\ renders[k].idx = Plus(start, k - 1)
          /\ renders[k].path = paths[k]
          /\ new_paths[k] = rename_result(paths[k], Concat(renders[k].fields))

\* What holds of the code: the same, while the index stays below u32::MAX.
C10_BelowU32Max ==
    Len(start) < Len(U32_MAX) => C10_RunningIndex

\* ------------------------------------------------------------------------
\* Properties of compiling and rendering (SpecP)
\* ------------------------------------------------------------------------
\* the text rendered for the k-th path
Rendered(k) == Concat(renders[k].fields)

\* C11: the destination of every rename has the rendered text as its whole
\* file stem and exactly the extension of its source (none when the source
\* has none), also when the rendered text contains a '.'.
C11_ExtensionPreserved ==
    \A k \in DOMAIN renders :
        /\ file_stem(new_paths[k].name) = Some(Rendered(k))
        /\ extension(new_paths[k].name) = extension(paths[k].name)

Contains(hay, needle) ==
    \E i \in 1..(Len(hay) - Len(needle) + 1) :
        SubSeq(hay, i, i + Len(needle) - 1) = needle

\* the brace tokens {X} and {X:N} of s, as (first, last) positions
BraceTokens(s) ==
    {t \in (1..Len(s)) \X (1..Len(s)) :
        /\ t[1] + 2 <= t[2]
        /\ s[t[1]] = "{"
        /\ s[t[1] + 1] \notin {"{", "}", ":"}
        /\ s[t[2]] = "}"
        /\ \/ t[2] = t[1] + 2
           \/ /\ t[2] > t[1] + 3
              /\ s[t[1] + 2] = ":"
              /\ \A m \in (t[1] + 3)..(t[2] - 1) : s[m] \in Digits}

\* the specifier characters that the claim lists
ListedSpecifiers == {"n", "N", "0", "o", "O", "f", "F"}

UnrecognizedTokens(s) ==
    {t \in BraceTokens(s) : s[t[1] + 1] \notin ListedSpecifiers}

RecognizedTokens(s) ==
    {t \in BraceTokens(s) : s[t[1] + 1] \in ListedSpecifiers}

TokenText(s, t) == SubSeq(s, t[1], t[2])

Truncate(name, w) == SubSeq(name, 1, IF w < Len(name) THEN w ELSE Len(name))

\* C13: rename never fails or panics on a path with a file name, and a
\* Filename segment of width w > 1 emits the (pattern-extracted) stem cut to
\* w characters, one of width 1 the full stem, also for stems shorter than w.
C13_RenderingNeverFails ==
    /\ pc # "panicked"
    /\ \A k \in DOMAIN renders : \A j \in DOMAIN template :
          (template[j].kind = "Filename" /\ template[j].width >= 1) =>
              LET name == extract_name(pattern, file_stem(paths[k].name)[1])
              IN  renders[k].fields[j] =
                      IF template[j].width = 1 THEN name
                      ELSE Truncate(name, template[j].width)

\* ------------------------------------------------------------------------
\* Properties of one dry run (SpecT)
\* ------------------------------------------------------------------------
\* path p is pending at the turn of position k of the order: it is a source
\* of the batch and not the source of any operation at positions 1..k
PendingAt(ord, k, p) ==
    /\ p \in Range(paths)
    /\ \A m \in 1..k : paths[ord[m]] # p

\* the positions of the order whose destination is pending at their turn
PendingTurns(ord) ==
    {k \in DOMAIN ord : PendingAt(ord, k, new_paths[ord[k]])}

FirstOf(S) == CHOOSE k \in S : \A m \in S : k <= m

\* C14: a pass, also one after earlier passes on the same DataTracker,
\* returns Err exactly when the destination of some operation is pending at
\* its turn (every source starts pending, an operation's own source is
\* vacated before its destination is looked up); the Conflict is the
\* {from, to} of the first such operation of the order and nothing after it
\* is visited; otherwise the pass returns Ok after visiting every operation.
C14_DryRun ==
    dir # "none" =>
        LET ord == OrderOf(dir, Len(paths))
            bad == PendingTurns(ord)
        IN  IF bad = {}
            THEN result = Ok /\ visited = Len(paths)
            ELSE /\ result = Err([from |-> paths[ord[FirstOf(bad)]],
                                  to |-> new_paths[ord[FirstOf(bad)]]])
                 /\ visited = FirstOf(bad)

C14_Witness ==
    /\ prev_dir = "Reverse"
    /\ dir = "Forward"
    /\ ~result.ok
    /\ visited = 2
    /\ Len(paths) = 3
    /\ new_paths[1] \notin Range(paths)

\* C16: an operation that renames a file to its own name is never the one
\* at which a pass returns Err, in either order; has_conflict returns a
\* destination only when it is the source of an operation of a later index,
\* never for an operation alone; a batch of self-renames only passes the
\* Forward dry run, and has_conflict too when its sources are distinct.
C16_SelfRenameNoConflict ==
    /\ (dir # "none" /\ ~result.ok) =>
          LET i == OrderOf(dir, Len(paths))[visited]
          IN  /\ new_paths[i] # paths[i]
              /\ result.conflict = [from |-> paths[i], to |-> new_paths[i]]
    /\ has_conflict(paths, new_paths) # None =>
          \E i, j \in DOMAIN paths :
              i < j /\ has_conflict(paths, new_paths) = Some(new_paths[i])
                    /\ new_paths[i] = paths[j]
    /\ (\A i \in DOMAIN paths : new_paths[i] = paths[i]) =>
          /\ dir = "Forward" => result = Ok /\ visited = Len(paths)
          /\ NoDup(paths) => has_conflict(paths, new_paths) = None

C16_Witness ==
    /\ dir = "Forward"
    /\ prev_dir = "Reverse"
    /\ Len(paths) = 3
    /\ NoDup(paths)
    /\ \A i \in DOMAIN paths : new_paths[i] = paths[i]
    /\ result.ok

\* ------------------------------------------------------------------------
\* The conflict check of main against the Forward dry run (SpecM)
\* ------------------------------------------------------------------------
\* the indices whose destination is the source of a later index
LaterSourceHits ==
    {i \in DOMAIN paths : \E j \in DOMAIN paths : i < j /\ paths[j] = new_paths[i]}

\* C15: on a batch with pairwise distinct sources, has_conflict returns a
\* path exactly when the Forward dry run returns Err, and the path is the
\* `to` of that Conflict: the first destination, in index order, that is
\* the source of a later index.
C15_AgreesWithForward ==
    (pc # "has_conflict" /\ NoDup(paths)) =>
        /\ report.kind = "conflict" <=> ~ForwardDryRun.ok
        /\ report.kind = "conflict" =>
              /\ report.path = ForwardDryRun.conflict.to
              /\ LaterSourceHits # {}
              /\ report.path = new_paths[FirstOf(LaterSourceHits)]
              /\ ForwardDryRun.conflict.from = paths[FirstOf(LaterSourceHits)]

C15_Witness ==
    /\ pc = "exit"
    /\ report.kind = "conflict"
    /\ NoDup(paths)
    /\ Len(paths) = 3
    /\ new_paths[1] = paths[1]
    /\ report.path = new_paths[2]
====
